---- MODULE Spec2Model ----
(***************************************************************************)
(* A model of the sqlite_database wrapper (src/src/sqlite_database.cpp,    *)
(* src/include/sqlite_database/sqlite_database.h): the shared ownership of *)
(* the native handle, the Transaction scope, and the Query builder/cursor. *)
(*                                                                         *)
(* Text is a sequence of one-character strings.  The engine               *)
(* (libs/sqlite3) is external: its outcomes are nondeterministic inputs.   *)
(***************************************************************************)
EXTENDS Integers, Sequences, FiniteSets, TLC

VARIABLES
    use_count,    \* strong count of std::shared_ptr<SqliteDatabase>
    closes,       \* number of sqlite3_close calls made by ~SqliteDatabase
    caller_refs,  \* shared_ptr copies held by the caller
    queries,      \* the live Query objects (each holds one reference)
    tx,           \* the Transaction objects: fields and the statements issued
    uncaught,     \* std::uncaught_exceptions()
    last,         \* the last operation called and how it returned
    ss,           \* Query::ss, the accumulated SQL text
    stmt,         \* Query::stmt, the prepared statement (or null)
    bind_idx,     \* Query::bind_idx
    col_idx,      \* Query::col_idx
    col_count,    \* Query::col_count
    pieces,       \* what was appended to ss since the Query was created or reset
    prepared      \* sqlite3_prepare_v2 since the Query was created or reset: calls, last text, last answer

txvars == <<use_count, closes, caller_refs, queries, tx, uncaught>>
qvars == <<ss, stmt, bind_idx, col_idx, col_count, pieces, prepared>>
vars == <<use_count, closes, caller_refs, queries, tx, uncaught, last,
          ss, stmt, bind_idx, col_idx, col_count, pieces, prepared>>

-----------------------------------------------------------------------------
(* Bounds *)

MaxTx == 1        \* Transaction objects
MaxQueries == 1   \* Query objects alive at once
MaxRefs == 1      \* references the caller holds at once
MaxUncaught == 1  \* exceptions in flight at once
MaxLog == 2       \* statements of a Transaction before commit/rollback are no longer called
MaxPieces == 2    \* appends to a Query's text
MaxFragLen == 2   \* length of an appended text fragment
MaxArrayCols == 3 \* columns of add_array
MaxArrayRows == 3 \* rows of add_array
MaxCols == 2      \* parameters and columns of a statement
MaxPrepares == 2  \* prepare calls between two resets
MaxColumnLen == 4 \* length of a column text
Bits64 == 4       \* width the model gives the 64-bit integers
Bits32 == 2       \* width the model gives the 32-bit integers

TxIds == 1..MaxTx
QueryIds == 1..MaxQueries

-----------------------------------------------------------------------------
(* Ownership: std::shared_ptr<SqliteDatabase> and ~SqliteDatabase          *)

\* A Transaction that was never begun.
NoTx == [st |-> "none", database |-> FALSE, exception_count |-> 0, log |-> <<>>]

\* Somebody can still reach the SqliteDatabase object to call a factory on it.
Reachable == caller_refs > 0 \/ queries # {}

\* One shared_ptr copy is made.
Acquire == use_count' = use_count + 1

\* Release with the handle closed one release early.
Release_OffByOne ==
    /\ use_count' = use_count - 1
    /\ closes' = IF use_count - 1 <= 1 THEN closes + 1 ELSE closes

\* One shared_ptr is destroyed or reset; the last one runs ~SqliteDatabase,
\* which calls sqlite3_close.
Release ==
    /\ use_count' = use_count - 1
    /\ closes' = IF use_count - 1 = 0 THEN closes + 1 ELSE closes

\* An operation returned normally.
Returned(op, t) ==
    /\ last' = [op |-> op, t |-> t, threw |-> "none"]
    /\ UNCHANGED uncaught
    /\ UNCHANGED qvars

\* An operation left by an exception, which is now in flight.
Threw(op, t, what) ==
    /\ uncaught < MaxUncaught
    /\ last' = [op |-> op, t |-> t, threw |-> what]
    /\ uncaught' = uncaught + 1
    /\ UNCHANGED qvars

\* SqliteDatabase::exec as its caller sees it: the statement is issued and
\* the engine accepts it (ok) or prepare/step fails and exec throws.
exec(t, sql, by, ok) ==
    Append(tx[t].log, [sql |-> sql, ok |-> ok, by |-> by])

\* Query::get_database: the caller obtains one more reference.
get_database(q) ==
    /\ q \in queries
    /\ caller_refs < MaxRefs
    /\ caller_refs' = caller_refs + 1
    /\ Acquire
    /\ Returned("get_database", q)
    /\ UNCHANGED <<closes, queries, tx>>

\* The caller lets go of one of its references.
DropReference ==
    /\ caller_refs > 0
    /\ caller_refs' = caller_refs - 1
    /\ Release
    /\ Returned("drop", 0)
    /\ UNCHANGED <<queries, tx>>

\* SqliteDatabase::create_query: Query(shared_from_this()).
create_query(q) ==
    /\ Reachable
    /\ q \notin queries
    /\ queries' = queries \cup {q}
    /\ Acquire
    /\ Returned("create_query", q)
    /\ UNCHANGED <<closes, caller_refs, tx>>

\* Query::~Query: finalizes the statement; the member database is released.
DestroyQuery(q) ==
    /\ q \in queries
    /\ queries' = queries \ {q}
    /\ Release
    /\ Returned("~Query", q)
    /\ UNCHANGED <<caller_refs, tx>>

-----------------------------------------------------------------------------
(* Transaction                                                             *)

\* SqliteDatabase::begin_transaction and Transaction::Transaction: the
\* reference is taken, the exception count captured, BEGIN issued.  When
\* BEGIN fails the constructor throws and the reference taken is given back.
begin_transaction(t, ok) ==
    /\ Reachable
    /\ tx[t].st = "none"
    /\ IF ok
       THEN /\ tx' = [tx EXCEPT ![t] =
                        [st |-> "alive", database |-> TRUE,
                         exception_count |-> uncaught,
                         log |-> exec(t, "BEGIN", "ctor", TRUE)]]
            /\ Acquire
            /\ Returned("begin_transaction", t)
       ELSE /\ tx' = [tx EXCEPT ![t] =
                        [st |-> "failed", database |-> FALSE,
                         exception_count |-> 0,
                         log |-> exec(t, "BEGIN", "ctor", FALSE)]]
            /\ UNCHANGED use_count
            /\ Threw("begin_transaction", t, "DatabaseException")
    /\ UNCHANGED <<closes, caller_refs, queries>>

\* commit that returns silently on an inactive transaction.
commit_SilentWhenInactive(t, ok) ==
    /\ tx[t].st = "alive"
    /\ IF ~tx[t].database
       THEN /\ Returned("commit", t)
            /\ UNCHANGED <<tx, use_count, closes>>
       ELSE /\ Len(tx[t].log) < MaxLog
            /\ IF ok
               THEN /\ tx' = [tx EXCEPT ![t].log = exec(t, "COMMIT", "commit", TRUE),
                                        ![t].database = FALSE]
                    /\ Release
                    /\ Returned("commit", t)
               ELSE /\ tx' = [tx EXCEPT ![t].log = exec(t, "COMMIT", "commit", FALSE)]
                    /\ Threw("commit", t, "DatabaseException")
                    /\ UNCHANGED <<use_count, closes>>
    /\ UNCHANGED <<caller_refs, queries>>

\* Transaction::commit
commit(t, ok) ==
    /\ tx[t].st = "alive"
    /\ IF ~tx[t].database
       THEN /\ Threw("commit", t, "DatabaseException")
            /\ UNCHANGED <<tx, use_count, closes>>
       ELSE /\ Len(tx[t].log) < MaxLog
            /\ IF ok
               THEN /\ tx' = [tx EXCEPT ![t].log = exec(t, "COMMIT", "commit", TRUE),
                                        ![t].database = FALSE]
                    /\ Release
                    /\ Returned("commit", t)
               ELSE /\ tx' = [tx EXCEPT ![t].log = exec(t, "COMMIT", "commit", FALSE)]
                    /\ Threw("commit", t, "DatabaseException")
                    /\ UNCHANGED <<use_count, closes>>
    /\ UNCHANGED <<caller_refs, queries>>

\* rollback without database.reset() after the statement.
rollback_KeepsReference(t, ok) ==
    /\ tx[t].st = "alive"
    /\ IF ~tx[t].database
       THEN /\ Threw("rollback", t, "DatabaseException")
            /\ UNCHANGED <<tx, use_count, closes>>
       ELSE /\ Len(tx[t].log) < MaxLog
            /\ tx' = [tx EXCEPT ![t].log = exec(t, "ROLLBACK", "rollback", ok)]
            /\ IF ok
               THEN Returned("rollback", t)
               ELSE Threw("rollback", t, "DatabaseException")
            /\ UNCHANGED <<use_count, closes>>
    /\ UNCHANGED <<caller_refs, queries>>

\* Transaction::rollback
rollback(t, ok) ==
    /\ tx[t].st = "alive"
    /\ IF ~tx[t].database
       THEN /\ Threw("rollback", t, "DatabaseException")
            /\ UNCHANGED <<tx, use_count, closes>>
       ELSE /\ Len(tx[t].log) < MaxLog
            /\ IF ok
               THEN /\ tx' = [tx EXCEPT ![t].log = exec(t, "ROLLBACK", "rollback", TRUE),
                                        ![t].database = FALSE]
                    /\ Release
                    /\ Returned("rollback", t)
               ELSE /\ tx' = [tx EXCEPT ![t].log = exec(t, "ROLLBACK", "rollback", FALSE)]
                    /\ Threw("rollback", t, "DatabaseException")
                    /\ UNCHANGED <<use_count, closes>>
    /\ UNCHANGED <<caller_refs, queries>>

\* The destructor's test with the count captured at construction ignored.
ExitsNormally_NoSnapshot(t) == uncaught = 0

\* The destructor's test: no new exception is unwinding through the scope.
ExitsNormally(t) == tx[t].exception_count = uncaught

\* Transaction::~Transaction.  The member database is destroyed after the
\* body, also when the body throws.  The object is gone afterwards: only the
\* statements it issued are kept.
DestroyTransaction(t, ok) ==
    /\ tx[t].st = "alive"
    /\ IF ~tx[t].database
       THEN /\ tx' = [tx EXCEPT ![t].st = "destroyed",
                                ![t].exception_count = 0]
            /\ Returned("~Transaction", t)
            /\ UNCHANGED <<use_count, closes>>
       ELSE /\ Release
            /\ IF ExitsNormally(t)
               THEN /\ tx' = [tx EXCEPT ![t].st = "destroyed",
                                        ![t].database = FALSE,
                                        ![t].exception_count = 0,
                                        ![t].log = exec(t, "COMMIT", "dtor", ok)]
                    /\ IF ok
                       THEN Returned("~Transaction", t)
                       ELSE Threw("~Transaction", t, "DatabaseException")
               ELSE /\ tx' = [tx EXCEPT ![t].st = "destroyed",
                                        ![t].database = FALSE,
                                        ![t].exception_count = 0,
                                        ![t].log = exec(t, "ROLLBACK", "dtor", ok)]
                    /\ Returned("~Transaction", t)
    /\ UNCHANGED <<caller_refs, queries>>

\* User code throws: one more exception is in flight.
UserThrow ==
    /\ uncaught < MaxUncaught
    /\ uncaught' = uncaught + 1
    /\ last' = [op |-> "throw", t |-> 0, threw |-> "user"]
    /\ UNCHANGED <<use_count, closes, caller_refs, queries, tx>>
    /\ UNCHANGED qvars

\* A handler is entered: the exception is no longer in flight.
CatchException ==
    /\ uncaught > 0
    /\ uncaught' = uncaught - 1
    /\ last' = [op |-> "catch", t |-> 0, threw |-> "none"]
    /\ UNCHANGED <<use_count, closes, caller_refs, queries, tx>>
    /\ UNCHANGED qvars

-----------------------------------------------------------------------------
(* Query: the text builder                                                 *)

\* The characters isspace accepts, among those the model uses.
Whitespace == {" ", "\t"}

isspace(c) == c \in Whitespace

\* A const char * argument: the null pointer or a C string.
NullPtr == [null |-> TRUE, str |-> <<>>]
CStr(text) == [null |-> FALSE, str |-> text]

\* A Query operation returned `ret`.
QReturned(op, arg, ret) ==
    /\ last' = [op |-> op, arg |-> arg, threw |-> "none", ret |-> ret]
    /\ UNCHANGED txvars

\* A Query operation left by an exception; the caller handles it.
QThrew(op, arg, what) ==
    /\ last' = [op |-> op, arg |-> arg, threw |-> what, ret |-> <<>>]
    /\ UNCHANGED txvars

\* The appends' separator with the test for trailing whitespace left out.
Separated_NoSpaceTest(text) ==
    IF text # <<>> THEN Append(text, " ") ELSE text

\* if (!ss.str().empty() && !isspace(ss.str().back())) ss << ' ';
Separated(text) ==
    IF text # <<>> /\ ~isspace(text[Len(text)]) THEN Append(text, " ") ELSE text

\* Query::operator<<(const char *)
AppendCStr(value) ==
    /\ Len(pieces) < MaxPieces
    /\ IF value.null
       THEN UNCHANGED <<ss, pieces>>
       ELSE /\ ss' = Separated(ss) \o value.str
            /\ pieces' = Append(pieces, [op |-> "text", text |-> value.str])
    /\ QReturned("<<", <<>>, <<>>)
    /\ UNCHANGED <<stmt, bind_idx, col_idx, col_count, prepared>>

\* Query::operator<<(const std::string &)
AppendString(value) ==
    /\ Len(pieces) < MaxPieces
    /\ IF value = <<>>
       THEN UNCHANGED <<ss, pieces>>
       ELSE /\ ss' = Separated(ss) \o value
            /\ pieces' = Append(pieces, [op |-> "text", text |-> value])
    /\ QReturned("<<", <<>>, <<>>)
    /\ UNCHANGED <<stmt, bind_idx, col_idx, col_count, prepared>>

\* template Query::operator<<(const T &), for a value streamed as `text`.
AppendValue(text) ==
    /\ Len(pieces) < MaxPieces
    /\ ss' = (IF ss # <<>> THEN Append(ss, " ") ELSE ss) \o text
    /\ pieces' = Append(pieces, [op |-> "value", text |-> text])
    /\ QReturned("<<", <<>>, <<>>)
    /\ UNCHANGED <<stmt, bind_idx, col_idx, col_count, prepared>>

\* The loop of add_array(columns): ss << (i ? ",?" : "(?") for i < columns.
RECURSIVE Markers(_, _, _)
Markers(text, i, columns) ==
    IF i >= columns
    THEN text
    ELSE Markers(text \o (IF i # 0 THEN <<",", "?">> ELSE <<"(", "?">>), i + 1, columns)

\* The text after Query::add_array(columns) on `text`.
AddArrayText(text, columns) ==
    LET sep == Separated(text)
        open == IF columns > 0 THEN Markers(sep, 0, columns) ELSE Append(sep, "(")
    IN  Append(open, ")")

\* The loop of add_array(columns, rows) with add_array(columns) writing its
\* group straight after the comma.
RECURSIVE AddRowsText_NoSeparator(_, _, _, _)
AddRowsText_NoSeparator(text, i, columns, rows) ==
    IF i >= rows
    THEN text
    ELSE LET t0 == IF i # 0 THEN Append(text, ",") ELSE text
             t1 == IF columns > 0 THEN Markers(t0, 0, columns) ELSE Append(t0, "(")
         IN  AddRowsText_NoSeparator(Append(t1, ")"), i + 1, columns, rows)

\* The loop of add_array(columns, rows): a comma before every group but the
\* first, then add_array(columns).
RECURSIVE AddRowsText(_, _, _, _)
AddRowsText(text, i, columns, rows) ==
    IF i >= rows
    THEN text
    ELSE AddRowsText(AddArrayText(IF i # 0 THEN Append(text, ",") ELSE text, columns),
                     i + 1, columns, rows)

\* Query::add_array(size_t columns)
add_array(columns) ==
    /\ Len(pieces) < MaxPieces
    /\ ss' = AddArrayText(ss, columns)
    /\ pieces' = Append(pieces, [op |-> "array", text |-> <<>>])
    /\ QReturned("add_array", <<columns>>, <<>>)
    /\ UNCHANGED <<stmt, bind_idx, col_idx, col_count, prepared>>

\* Query::add_array(size_t columns, size_t rows)
add_array_rows(columns, rows) ==
    /\ Len(pieces) < MaxPieces
    /\ ss' = AddRowsText(ss, 0, columns, rows)
    /\ pieces' = Append(pieces, [op |-> "array", text |-> <<>>])
    /\ QReturned("add_array_rows", <<columns, rows>>, <<>>)
    /\ UNCHANGED <<stmt, bind_idx, col_idx, col_count, prepared>>

-----------------------------------------------------------------------------
(* Integers of the program, at the model's widths                          *)

INT64_MAX == 2^(Bits64 - 1) - 1
INT64_MIN == -(2^(Bits64 - 1))
UINT64_MAX == 2^Bits64 - 1
INT32_MIN == -(2^(Bits32 - 1))
INT32_MAX == 2^(Bits32 - 1) - 1
UINT32_MAX == 2^Bits32 - 1

\* static_cast<int64_t> of an unsigned 64-bit value.
ToInt64(u) == IF u > INT64_MAX THEN u - 2^Bits64 ELSE u

\* The conversion of a signed 64-bit value to uint64_t.
ToUInt64(x) == x % 2^Bits64

\* The conversion of a signed 64-bit value to int (its low 32 bits).
ToInt32(x) == ((x + 2^(Bits32 - 1)) % 2^Bits32) - 2^(Bits32 - 1)

\* The conversion of a signed 64-bit value to uint32_t.
ToUInt32(x) == x % 2^Bits32

DigitChars == <<"0", "1", "2", "3", "4", "5", "6", "7", "8", "9">>

IsDigit(c) == \E d \in DOMAIN DigitChars : DigitChars[d] = c

DigitValue(c) == (CHOOSE d \in DOMAIN DigitChars : DigitChars[d] = c) - 1

\* The decimal digits of n >= 0.
RECURSIVE Digits(_)
Digits(n) ==
    IF n < 10 THEN <<DigitChars[n + 1]>> ELSE Append(Digits(n \div 10), DigitChars[(n % 10) + 1])

\* The engine's text of an INTEGER value.
IntToText(n) == IF n < 0 THEN <<"-">> \o Digits(-n) ELSE Digits(n)

\* strtoll, base 10: the first index at or after i that holds no whitespace.
RECURSIVE SkipSpace(_, _)
SkipSpace(text, i) ==
    IF i <= Len(text) /\ isspace(text[i]) THEN SkipSpace(text, i + 1) ELSE i

\* strtoll, base 10: the first index at or after i that holds no digit.
RECURSIVE DigitsEnd(_, _)
DigitsEnd(text, i) ==
    IF i <= Len(text) /\ IsDigit(text[i]) THEN DigitsEnd(text, i + 1) ELSE i

\* strtoll, base 10: the number the digits text[i..j-1] spell, after acc.
RECURSIVE Accumulate(_, _, _, _)
Accumulate(text, i, j, acc) ==
    IF i >= j THEN acc ELSE Accumulate(text, i + 1, j, acc * 10 + DigitValue(text[i]))

\* strtoll(text, &end, 10): whether a number was converted, its value
\* (clamped to the range) and whether it was out of range.
strtoll(text) ==
    LET s == SkipSpace(text, 1)
        signed == s <= Len(text) /\ text[s] \in {"+", "-"}
        neg == signed /\ text[s] = "-"
        b == IF signed THEN s + 1 ELSE s
        e == DigitsEnd(text, b)
        mag == Accumulate(text, b, e, 0)
        val == IF neg THEN -mag ELSE mag
    IN  [conv |-> e > b,
         range |-> val > INT64_MAX \/ val < INT64_MIN,
         v |-> IF val > INT64_MAX THEN INT64_MAX
               ELSE IF val < INT64_MIN THEN INT64_MIN ELSE val]

\* std::stoll(text): the value, or the exception it throws.
stoll(text) ==
    LET r == strtoll(text)
    IN  IF ~r.conv THEN [threw |-> "std::invalid_argument", v |-> 0]
        ELSE IF r.range THEN [threw |-> "std::out_of_range", v |-> 0]
        ELSE [threw |-> "none", v |-> r.v]

-----------------------------------------------------------------------------
(* Query: the prepared statement, the binds and the cursor                 *)

\* The values of the engine.
NullVal == [type |-> "null", n |-> 0, s |-> <<>>]
IntVal(n) == [type |-> "int", n |-> n, s |-> <<>>]
TextVal(s) == [type |-> "text", n |-> 0, s |-> s]

NoParams == [i \in 1..MaxCols |-> NullVal]

\* stmt == nullptr
NullStmt == [null |-> TRUE, sql |-> <<>>, params |-> NoParams, row |-> FALSE]

\* The text holds no SQL: the engine prepares it to no statement.
Blank(text) == \A i \in DOMAIN text : isspace(text[i])

\* What sqlite3_prepare_v2 can answer for `text`: an error, or SQLITE_OK
\* with a statement, or SQLITE_OK with no statement when the text is blank.
PrepareOutcomes(text) == IF Blank(text) THEN {"empty", "error"} ELSE {"stmt", "error"}

\* The counter of prepare calls is capped, and the engine's answer fits.
PrepareGuard(p) ==
    stmt.null => (prepared.n < MaxPrepares /\ p \in PrepareOutcomes(ss))

\* No sqlite3_prepare_v2 call yet.
NotPrepared == [n |-> 0, sql |-> <<>>, res |-> "none"]

\* One more sqlite3_prepare_v2 call, on `text`, answered p.
PrepareCall(text, p) == [n |-> prepared.n + 1, sql |-> text, res |-> p]

\* "if (!stmt) prepare();" with the test left out: every call prepares.
EnsurePrepared_Always(p, cols) ==
    IF p = "error"
    THEN [threw |-> TRUE, stmt |-> stmt, col_count |-> col_count,
          prepared |-> PrepareCall(ss, p)]
    ELSE [threw |-> FALSE,
          stmt |-> IF p = "stmt"
                   THEN [null |-> FALSE, sql |-> ss, params |-> NoParams, row |-> FALSE]
                   ELSE NullStmt,
          col_count |-> IF p = "stmt" THEN cols ELSE 0,
          prepared |-> PrepareCall(ss, p)]

\* "if (!stmt) prepare();" with the engine answering p and, for a
\* statement, cols columns: Query::prepare throws on an error, else stores
\* the statement and caches sqlite3_column_count.
EnsurePrepared(p, cols) ==
    IF ~stmt.null
    THEN [threw |-> FALSE, stmt |-> stmt, col_count |-> col_count, prepared |-> prepared]
    ELSE IF p = "error"
    THEN [threw |-> TRUE, stmt |-> stmt, col_count |-> col_count,
          prepared |-> PrepareCall(ss, p)]
    ELSE [threw |-> FALSE,
          stmt |-> IF p = "stmt"
                   THEN [null |-> FALSE, sql |-> ss, params |-> NoParams, row |-> FALSE]
                   ELSE NullStmt,
          col_count |-> IF p = "stmt" THEN cols ELSE 0,
          prepared |-> PrepareCall(ss, p)]

\* The body every bind overload shares: prepare if needed, then
\* sqlite3_bind_*(stmt, ++bind_idx, val), which the engine accepts (ok) or not.
Bind(op, arg, val, p, cols, ok) ==
    /\ bind_idx < MaxCols
    /\ PrepareGuard(p)
    /\ LET e == EnsurePrepared(p, cols)
       IN  /\ prepared' = e.prepared
           /\ col_count' = e.col_count
           /\ IF e.threw
              THEN /\ stmt' = e.stmt
                   /\ UNCHANGED bind_idx
                   /\ QThrew(op, arg, "DatabaseException")
              ELSE /\ bind_idx' = bind_idx + 1
                   /\ IF ~e.stmt.null /\ ok
                      THEN /\ stmt' = [e.stmt EXCEPT !.params[bind_idx + 1] = val]
                           /\ QReturned(op, arg, <<>>)
                      ELSE /\ stmt' = e.stmt
                           /\ QThrew(op, arg, "DatabaseException")
    /\ UNCHANGED <<ss, col_idx, pieces>>

\* Query::bind(const char *, bool): a null pointer binds NULL.
bind_cstr(value, p, cols, ok) ==
    Bind("bind_text", <<>>, IF value.null THEN NullVal ELSE TextVal(value.str), p, cols, ok)

\* Query::bind(const std::string &, bool)
bind_string(str, p, cols, ok) == Bind("bind_text", <<>>, TextVal(str), p, cols, ok)

\* Query::bind(int32_t)
bind_int32(value, p, cols, ok) == Bind("bind_int32", <<value>>, IntVal(value), p, cols, ok)

\* Query::bind(int64_t)
bind_int64(value, p, cols, ok) == Bind("bind_int64", <<value>>, IntVal(value), p, cols, ok)

\* Query::bind(uint32_t): bind(static_cast<int64_t>(value))
bind_uint32(value, p, cols, ok) == Bind("bind_uint32", <<value>>, IntVal(value), p, cols, ok)

\* bind(uint64_t) without the range test.
bind_uint64_NoRangeTest(value, p, cols, ok) ==
    Bind("bind_uint64", <<value>>, IntVal(ToInt64(value)), p, cols, ok)

\* Query::bind(uint64_t)
bind_uint64(value, p, cols, ok) ==
    IF value > INT64_MAX
    THEN /\ QThrew("bind_uint64", <<value>>, "DatabaseException")
         /\ UNCHANGED qvars
    ELSE Bind("bind_uint64", <<value>>, IntVal(ToInt64(value)), p, cols, ok)

\* Query::bind()
bind_null(p, cols, ok) == Bind("bind_null", <<>>, NullVal, p, cols, ok)

\* Query::step(), the engine answering res to sqlite3_step.
step(p, cols, res) ==
    /\ PrepareGuard(p)
    /\ LET e == EnsurePrepared(p, cols)
       IN  /\ prepared' = e.prepared
           /\ col_count' = e.col_count
           /\ IF e.threw
              THEN /\ stmt' = e.stmt
                   /\ UNCHANGED col_idx
                   /\ QThrew("step", <<>>, "DatabaseException")
              ELSE /\ col_idx' = 0
                   /\ IF e.stmt.null
                      THEN /\ stmt' = e.stmt
                           /\ QThrew("step", <<>>, "DatabaseException")
                      ELSE /\ stmt' = [e.stmt EXCEPT !.row = (res = "ROW")]
                           /\ IF res = "ERROR"
                              THEN QThrew("step", <<>>, "DatabaseException")
                              ELSE QReturned("step", <<>>, res = "ROW")
    /\ UNCHANGED <<ss, bind_idx, pieces>>

\* Query::reset()
reset ==
    /\ ss' = <<>>
    /\ stmt' = NullStmt
    /\ bind_idx' = 0
    /\ col_idx' = 0
    /\ col_count' = 0
    /\ pieces' = <<>>
    /\ prepared' = NotPrepared
    /\ QReturned("reset", <<>>, <<>>)

\* Query::clear_bindings(): sqlite3_reset and sqlite3_clear_bindings on a
\* statement, and the cursors zeroed.
clear_bindings ==
    /\ stmt' = IF stmt.null THEN stmt ELSE [stmt EXCEPT !.params = NoParams, !.row = FALSE]
    /\ bind_idx' = 0
    /\ col_idx' = 0
    /\ QReturned("clear_bindings", <<>>, <<>>)
    /\ UNCHANGED <<ss, col_count, pieces, prepared>>

-----------------------------------------------------------------------------
(* Query: reading the columns                                              *)

\* if (col_idx >= col_count) throw DatabaseException("Column is out of range")
OutOfRange == col_idx >= col_count

\* v can be the engine's value of column col_idx: on a row, the statement
\* echoes its parameters (SELECT ?1, ?2, ...); with no row the engine's
\* answer is undefined.
ColumnIs(v) == (stmt.row /\ col_idx < col_count) => v = stmt.params[col_idx + 1]

\* sqlite3_column_int64
column_int64(v) ==
    IF v.type = "int" THEN v.n
    ELSE IF v.type = "text" /\ strtoll(v.s).conv THEN strtoll(v.s).v
    ELSE 0

\* sqlite3_column_int
column_int(v) == ToInt32(column_int64(v))

\* sqlite3_column_text, and get_string's "str ? str : """.
column_text(v) ==
    IF v.type = "text" THEN v.s
    ELSE IF v.type = "int" THEN IntToText(v.n)
    ELSE <<>>

\* The shape the readers share: the range test, then the read with col_idx++.
Read(op, v, ret) ==
    /\ ColumnIs(v)
    /\ IF OutOfRange
       THEN /\ QThrew(op, <<>>, "DatabaseException")
            /\ UNCHANGED col_idx
       ELSE /\ col_idx' = col_idx + 1
            /\ QReturned(op, <<>>, ret)
    /\ UNCHANGED <<ss, stmt, bind_idx, col_count, pieces, prepared>>

\* Query::is_null(): no range test; off a row or off the columns the
\* engine's answer is undefined, on a null statement it is SQLITE_NULL.
is_null(v, b) ==
    /\ ColumnIs(v)
    /\ (stmt.row /\ col_idx < col_count) => (b = (v.type = "null"))
    /\ stmt.null => b
    /\ QReturned("is_null", <<>>, b)
    /\ UNCHANGED qvars

\* skip() with the range test left out.
skip_NoRangeTest ==
    /\ col_idx' = col_idx + 1
    /\ QReturned("skip", <<>>, <<>>)
    /\ UNCHANGED <<ss, stmt, bind_idx, col_count, pieces, prepared>>

\* Query::skip()
skip ==
    /\ IF OutOfRange
       THEN /\ QThrew("skip", <<>>, "DatabaseException")
            /\ UNCHANGED col_idx
       ELSE /\ col_idx' = col_idx + 1
            /\ QReturned("skip", <<>>, <<>>)
    /\ UNCHANGED <<ss, stmt, bind_idx, col_count, pieces, prepared>>

\* Query::get_string()
get_string(v) == Read("get_string", v, column_text(v))

\* Query::get_int32()
get_int32(v) == Read("get_int32", v, column_int(v))

\* Query::get_int64()
get_int64(v) == Read("get_int64", v, column_int64(v))

\* Query::get_double()
get_double(v) == Read("get_double", v, column_int64(v))

\* Query::get_uint32(): get_int64(), then the range test on its value.
get_uint32(v) ==
    /\ ColumnIs(v)
    /\ IF OutOfRange
       THEN /\ QThrew("get_uint32", <<>>, "DatabaseException")
            /\ UNCHANGED col_idx
       ELSE /\ col_idx' = col_idx + 1
            /\ IF column_int64(v) < 0 \/ column_int64(v) > UINT32_MAX
               THEN QThrew("get_uint32", <<>>, "DatabaseException")
               ELSE QReturned("get_uint32", <<>>, ToUInt32(column_int64(v)))
    /\ UNCHANGED <<ss, stmt, bind_idx, col_count, pieces, prepared>>

\* Query::get_uint64(): get_int64(), then the test for a negative value.
get_uint64(v) ==
    /\ ColumnIs(v)
    /\ IF OutOfRange
       THEN /\ QThrew("get_uint64", <<>>, "DatabaseException")
            /\ UNCHANGED col_idx
       ELSE /\ col_idx' = col_idx + 1
            /\ IF column_int64(v) < 0
               THEN QThrew("get_uint64", <<>>, "DatabaseException")
               ELSE QReturned("get_uint64", <<>>, ToUInt64(column_int64(v)))
    /\ UNCHANGED <<ss, stmt, bind_idx, col_count, pieces, prepared>>

\* The index of the first delimiter at or after i, or Len(text) + 1.
RECURSIVE FindDelimiter(_, _, _)
FindDelimiter(text, i, delimiter) ==
    IF i > Len(text) \/ text[i] = delimiter THEN i ELSE FindDelimiter(text, i + 1, delimiter)

\* The loop with empty segments passed over.
RECURSIVE getlines_SkipEmpty(_, _, _)
getlines_SkipEmpty(text, pos, delimiter) ==
    IF pos > Len(text)
    THEN <<>>
    ELSE LET e == FindDelimiter(text, pos, delimiter)
         IN  (IF e > pos THEN <<SubSeq(text, pos, e - 1)>> ELSE <<>>)
                 \o getlines_SkipEmpty(text, e + 1, delimiter)

\* The segments "while (std::getline(ss, tmp, delimiter))" visits from pos
\* on: getline fails, ending the loop, when it can extract no character.
RECURSIVE getlines(_, _, _)
getlines(text, pos, delimiter) ==
    IF pos > Len(text)
    THEN <<>>
    ELSE LET e == FindDelimiter(text, pos, delimiter)
         IN  <<SubSeq(text, pos, e - 1)>> \o getlines(text, e + 1, delimiter)

\* result.push_back(std::stoll(tmp)) over the segments: the values, or the
\* exception of the first segment stoll refuses.
RECURSIVE ParseAll(_, _, _)
ParseAll(segments, i, result) ==
    IF i > Len(segments)
    THEN [threw |-> "none", v |-> result]
    ELSE LET r == stoll(segments[i])
         IN  IF r.threw # "none"
             THEN [threw |-> r.threw, v |-> <<>>]
             ELSE ParseAll(segments, i + 1, Append(result, r.v))

\* The body of get_int64_array after get_string() returned `text`.
ParseInt64Array(text, delimiter) == ParseAll(getlines(text, 1, delimiter), 1, <<>>)

\* Query::get_int64_array(char delimiter)
get_int64_array(v, delimiter) ==
    /\ ColumnIs(v)
    /\ IF OutOfRange
       THEN /\ QThrew("get_int64_array", <<delimiter>>, "DatabaseException")
            /\ UNCHANGED col_idx
       ELSE /\ col_idx' = col_idx + 1
            /\ LET r == ParseInt64Array(column_text(v), delimiter)
               IN  IF r.threw # "none"
                   THEN QThrew("get_int64_array", <<delimiter>>, r.threw)
                   ELSE QReturned("get_int64_array", <<delimiter>>, r.v)
    /\ UNCHANGED <<ss, stmt, bind_idx, col_count, pieces, prepared>>

-----------------------------------------------------------------------------
(* The inputs                                                              *)

\* All texts over `chars` of length lo..hi.
RECURSIVE TextsUpTo(_, _)
TextsUpTo(chars, n) ==
    IF n = 0
    THEN {<<>>}
    ELSE LET shorter == TextsUpTo(chars, n - 1)
         IN  shorter \cup {Append(t, c) : t \in shorter, c \in chars}

\* The text fragments appended with operator<<.
Fragments == TextsUpTo({"a", " ", "\t"}, MaxFragLen) \ {<<>>}

\* The column texts get_int64_array is applied to, the specification's
\* example among them.
ColumnTexts ==
    TextsUpTo({"1", "2", ",", "x", "-", " "}, MaxColumnLen)
        \cup {<<"1", ",", "2", ",", ",", "3">>}

Int64Inputs == {INT64_MIN}
UInt64Inputs == {INT64_MAX, INT64_MAX + 1, UINT64_MAX}
\* The 32-bit binds are given a value both types hold.
Int32Inputs == {INT32_MAX}
UInt32Inputs == {INT32_MAX}
TextInputs == {<<"1", ",", "2">>}

\* The values a column can hold.
Values ==
    {NullVal}
        \cup {IntVal(n) : n \in Int64Inputs \cup Int32Inputs \cup UInt32Inputs}
        \cup {IntVal(ToInt64(u)) : u \in UInt64Inputs}
        \cup {TextVal(s) : s \in TextInputs}

\* What the engine may answer when asked for a column off the row.
UndefinedValues ==
    {NullVal} \cup {IntVal(n) : n \in Int64Inputs} \cup {TextVal(str) : str \in TextInputs}

\* The values the engine can give for column col_idx.
ColumnValues ==
    IF stmt.row /\ col_idx < col_count THEN {stmt.params[col_idx + 1]} ELSE UndefinedValues

\* The engine's answers to a prepare call, where the operation makes one.
PrepareAnswers ==
    IF stmt.null
    THEN {[p |-> p, cols |-> c] : p \in PrepareOutcomes(ss), c \in 0..MaxCols}
    ELSE {[p |-> "none", cols |-> 0]}
StepAnswers == {"ROW", "DONE", "ERROR"}

-----------------------------------------------------------------------------
(* The specifications                                                      *)

\* A Query as Query::Query leaves it.
FreshQuery ==
    /\ ss = <<>>
    /\ stmt = NullStmt
    /\ bind_idx = 0
    /\ col_idx = 0
    /\ col_count = 0
    /\ pieces = <<>>
    /\ prepared = NotPrepared

\* After SqliteDatabase::open*: the caller holds the only reference.
InitTx ==
    /\ use_count = 1
    /\ closes = 0
    /\ caller_refs = 1
    /\ queries = {}
    /\ tx = [t \in TxIds |-> NoTx]
    /\ uncaught = 0
    /\ last = [op |-> "open", t |-> 0, threw |-> "none"]
    /\ FreshQuery

NextTx ==
    \/ \E q \in QueryIds : get_database(q)
    \/ DropReference
    \/ \E q \in QueryIds : create_query(q)
    \/ \E q \in QueryIds : DestroyQuery(q)
    \/ \E t \in TxIds, ok \in BOOLEAN : begin_transaction(t, ok)
    \/ \E t \in TxIds, ok \in BOOLEAN : commit(t, ok)
    \/ \E t \in TxIds, ok \in BOOLEAN : rollback(t, ok)
    \/ \E t \in TxIds, ok \in BOOLEAN : DestroyTransaction(t, ok)
    \/ UserThrow
    \/ CatchException

\* The ownership and the Transaction scope.
SpecTx == InitTx /\ [][NextTx]_vars

\* After SqliteDatabase::open* and one create_query.
OneQuery ==
    /\ use_count = 2
    /\ closes = 0
    /\ caller_refs = 1
    /\ queries = {1}
    /\ tx = [t \in TxIds |-> NoTx]
    /\ uncaught = 0
    /\ last = [op |-> "create_query", arg |-> <<>>, threw |-> "none", ret |-> <<>>]

InitQuery == OneQuery /\ FreshQuery

NextText ==
    \/ \E f \in Fragments \cup {<<>>} : AppendCStr(CStr(f))
    \/ AppendCStr(NullPtr)
    \/ \E f \in Fragments \cup {<<>>} : AppendString(f)
    \/ \E n \in Int64Inputs : AppendValue(IntToText(n))
    \/ \E c \in 0..MaxArrayCols : add_array(c)
    \/ \E c \in 0..MaxArrayCols, r \in 0..MaxArrayRows : add_array_rows(c, r)
    \/ reset

\* The text builder of one Query.
SpecText == InitQuery /\ [][NextText]_vars

NextQuery ==
    \/ AppendString(<<"a">>)
    \/ add_array(1)
    \/ \E a \in PrepareAnswers, ok \in BOOLEAN :
          \/ bind_cstr(NullPtr, a.p, a.cols, ok)
          \/ \E n \in Int32Inputs : bind_int32(n, a.p, a.cols, ok)
          \/ \E n \in UInt32Inputs : bind_uint32(n, a.p, a.cols, ok)
          \/ \E n \in UInt64Inputs : bind_uint64(n, a.p, a.cols, ok)
          \/ bind_null(a.p, a.cols, ok)
    \/ \E a \in PrepareAnswers, res \in StepAnswers : step(a.p, a.cols, res)
    \/ reset
    \/ clear_bindings
    \/ skip

\* One Query: its text, its preparation, binds and steps.
SpecQuery == InitQuery /\ [][NextQuery]_vars

\* A Query after its first append.
InitCursor ==
    /\ OneQuery
    /\ ss = <<"a">>
    /\ stmt = NullStmt
    /\ bind_idx = 0
    /\ col_idx = 0
    /\ col_count = 0
    /\ pieces = <<[op |-> "text", text |-> <<"a">>]>>
    /\ prepared = NotPrepared

NextCursor ==
    \/ \E a \in PrepareAnswers, ok \in BOOLEAN :
          \/ \E str \in TextInputs : bind_string(str, a.p, a.cols, ok)
          \/ \E str \in TextInputs : bind_cstr(CStr(str), a.p, a.cols, ok)
          \/ \E n \in Int64Inputs : bind_int64(n, a.p, a.cols, ok)
          \/ \E n \in UInt64Inputs : bind_uint64(n, a.p, a.cols, ok)
    \/ \E a \in PrepareAnswers, res \in StepAnswers : step(a.p, a.cols, res)
    \/ clear_bindings
    \/ \E v \in ColumnValues, b \in BOOLEAN : is_null(v, b)
    \/ skip
    \/ \E v \in ColumnValues : get_string(v)
    \/ \E v \in ColumnValues : get_int32(v)
    \/ \E v \in ColumnValues : get_uint32(v)
    \/ \E v \in ColumnValues : get_int64(v)
    \/ \E v \in ColumnValues : get_uint64(v)
    \/ \E v \in ColumnValues : get_double(v)
    \/ \E v \in ColumnValues : get_int64_array(v, ",")

\* One Query: binds, steps and the reads of the columns.
SpecCursor == InitCursor /\ [][NextCursor]_vars

\* A Query on a row of a one-column statement whose column holds a text.
InitParse ==
    /\ OneQuery
    /\ ss = <<"a">>
    /\ \E s \in ColumnTexts :
          stmt = [null |-> FALSE, sql |-> <<"a">>,
                  params |-> [NoParams EXCEPT ![1] = TextVal(s)], row |-> TRUE]
    /\ bind_idx = 1
    /\ col_idx = 0
    /\ col_count = 1
    /\ pieces = <<[op |-> "text", text |-> <<"a">>]>>
    /\ prepared = [n |-> 1, sql |-> <<"a">>, res |-> "stmt"]

NextParse ==
    \/ \E v \in ColumnValues : get_int64_array(v, ",")
    \/ \E v \in ColumnValues : get_string(v)

\* get_int64_array and get_string applied to every column text.
SpecParse == InitParse /\ [][NextParse]_vars

-----------------------------------------------------------------------------
(* Properties of the Transaction scope and of the ownership                *)

\* The statements Transaction t issued in the step just taken.
Issued(t) == SubSeq(tx'[t].log, Len(tx[t].log) + 1, Len(tx'[t].log))

\* The COMMIT and ROLLBACK statements Transaction t has issued so far.
Endings(t) == {i \in DOMAIN tx[t].log : tx[t].log[i].sql \in {"COMMIT", "ROLLBACK"}}

\* Transaction t holds a live connection reference.
Active(t) == tx[t].st = "alive" /\ tx[t].database

\* C1: the destructor of a scope that is still active issues exactly one
\* COMMIT and no ROLLBACK when the number of exceptions in flight equals the
\* number captured at construction; otherwise it issues exactly one ROLLBACK
\* and no COMMIT, and a failure of that ROLLBACK does not leave the destructor.
C1_DestructorCommitsOrRollsBack ==
    [][\A t \in TxIds :
        (Active(t) /\ tx'[t].st = "destroyed") =>
            /\ Len(Issued(t)) = 1
            /\ Issued(t)[1].by = "dtor"
            /\ last'.op = "~Transaction"
            /\ IF tx[t].exception_count = uncaught
               THEN Issued(t)[1].sql = "COMMIT"
               ELSE /\ Issued(t)[1].sql = "ROLLBACK"
                    /\ last'.threw = "none"
                    /\ uncaught' = uncaught]_vars

\* C1 witness: a destructor ran during unwinding, its ROLLBACK failed and
\* nothing was thrown.
C1_Witness ==
    \E t \in TxIds :
        /\ last = [op |-> "~Transaction", t |-> t, threw |-> "none"]
        /\ tx[t].st = "destroyed"
        /\ tx[t].log[Len(tx[t].log)] = [sql |-> "ROLLBACK", ok |-> FALSE, by |-> "dtor"]

\* C2 as stated: over its whole lifetime a scope issues at most one COMMIT or
\* ROLLBACK statement, whatever the engine answers, and once commit() or
\* rollback() has been performed the destructor issues nothing.
C2_AtMostOneStatement ==
    \A t \in TxIds :
        /\ Cardinality(Endings(t)) <= 1
        /\ \A i, j \in Endings(t) :
              (tx[t].log[i].by \in {"commit", "rollback"}) => tx[t].log[j].by # "dtor"

\* C2 amended: a scope issues at most one COMMIT or ROLLBACK statement that
\* the engine accepts, no statement at all after an accepted one (so the
\* destructor issues nothing once commit() or rollback() has succeeded), and
\* the destructor at most one statement.
C2_AtMostOneAccepted ==
    \A t \in TxIds :
        /\ Cardinality({i \in Endings(t) : tx[t].log[i].ok}) <= 1
        /\ \A i \in Endings(t) : tx[t].log[i].ok => i = Len(tx[t].log)
        /\ Cardinality({i \in Endings(t) : tx[t].log[i].by = "dtor"}) <= 1

\* C2 witness: a commit() or rollback() the engine refused was followed by
\* an accepted statement, and the scope has been destroyed.
C2_Witness ==
    \E t \in TxIds :
        /\ tx[t].st = "destroyed"
        /\ \E i, j \in Endings(t) :
              /\ i < j
              /\ ~tx[t].log[i].ok
              /\ tx[t].log[j].ok

\* C3: commit() or rollback() on a closed scope raises DatabaseException,
\* issues nothing and leaves the scope closed; on an active scope it issues
\* the matching statement and, when the statement succeeds, closes the scope.
C3_CommitRollback ==
    [][\A t \in TxIds :
        (tx[t].st = "alive" /\ last'.t = t /\ last'.op \in {"commit", "rollback"}) =>
            IF ~tx[t].database
            THEN /\ last'.threw = "DatabaseException"
                 /\ Issued(t) = <<>>
                 /\ ~tx'[t].database
            ELSE /\ Len(Issued(t)) = 1
                 /\ Issued(t)[1].sql = (IF last'.op = "commit" THEN "COMMIT" ELSE "ROLLBACK")
                 /\ Issued(t)[1].ok => (~tx'[t].database /\ last'.threw = "none")]_vars

\* C3 witness: rollback() was called on a scope that a successful commit()
\* had closed, and raised.
C3_Witness ==
    \E t \in TxIds :
        /\ last = [op |-> "rollback", t |-> t, threw |-> "DatabaseException"]
        /\ tx[t].st = "alive"
        /\ ~tx[t].database
        /\ tx[t].log[Len(tx[t].log)] = [sql |-> "COMMIT", ok |-> TRUE, by |-> "commit"]

\* The owners of the connection: the caller's references, the Query objects
\* and the active Transaction scopes.
Owners == caller_refs + Cardinality(queries) + Cardinality({t \in TxIds : Active(t)})

\* C4: whatever the order of the releases, the native handle is closed at
\* most once, it is closed exactly when the last owner has released it, and
\* never while a Query or an active Transaction exists.
C4_ClosedOnceOnLastRelease ==
    /\ closes <= 1
    /\ (closes = 1) <=> (Owners = 0)
    /\ closes > 0 => (queries = {} /\ \A t \in TxIds : ~Active(t))

\* C4 witness: the last owner was a Transaction, whose successful commit()
\* closed the handle after the caller and the Query had let go.
C4_Witness ==
    \E t \in TxIds :
        /\ closes = 1
        /\ last = [op |-> "commit", t |-> t, threw |-> "none"]
        /\ tx[t].st = "alive"

-----------------------------------------------------------------------------
(* Properties of the text builder                                          *)

\* Every append so far was an operator<< of a non-empty text fragment.
OnlyFragments ==
    \A i \in DOMAIN pieces : pieces[i].op = "text" /\ pieces[i].text # <<>>

\* The fragments i..Len(ps) of ps, each preceded by exactly one space.
RECURSIVE SpaceBeforeEach(_, _)
SpaceBeforeEach(ps, i) ==
    IF i > Len(ps) THEN <<>> ELSE <<" ">> \o ps[i].text \o SpaceBeforeEach(ps, i + 1)

\* The fragments of ps with exactly one space between consecutive ones.
JoinedByOneSpace(ps) ==
    IF ps = <<>> THEN <<>> ELSE ps[1].text \o SpaceBeforeEach(ps, 2)

\* The fragments i..Len(ps) of ps, each preceded by one space when the
\* fragment before it does not end in whitespace and by nothing when it does.
RECURSIVE SpaceWhereNeeded(_, _)
SpaceWhereNeeded(ps, i) ==
    IF i > Len(ps)
    THEN <<>>
    ELSE (IF isspace(ps[i - 1].text[Len(ps[i - 1].text)]) THEN <<>> ELSE <<" ">>)
             \o ps[i].text \o SpaceWhereNeeded(ps, i + 1)

\* No fragment of ps ends in whitespace.
NoTrailingWhitespace(ps) ==
    \A i \in DOMAIN ps : ~isspace(ps[i].text[Len(ps[i].text)])

\* C5 as stated: after any sequence of operator<< appends of non-empty text
\* fragments on a fresh Query, the text is the fragments with exactly one
\* space between each consecutive pair, whatever whitespace a fragment begins
\* or ends with.
C5_ExactlyOneSpace ==
    OnlyFragments => ss = JoinedByOneSpace(pieces)

\* C5 amended: the text is the fragments in order, with one space inserted
\* between two consecutive fragments when the earlier one does not end in
\* whitespace and nothing inserted when it does; so fragments that do not
\* end in whitespace are joined by exactly one inserted space.
C5_OneSpaceUnlessWhitespace ==
    OnlyFragments =>
        /\ pieces # <<>> => ss = pieces[1].text \o SpaceWhereNeeded(pieces, 2)
        /\ NoTrailingWhitespace(pieces) => ss = JoinedByOneSpace(pieces)

\* C5 witness: a fragment that ends in whitespace was followed by another
\* fragment, and nothing was inserted between them.
C5_Witness ==
    /\ OnlyFragments
    /\ Len(pieces) = 2
    /\ isspace(pieces[1].text[Len(pieces[1].text)])
    /\ ~isspace(pieces[2].text[1])
    /\ ss = pieces[1].text \o pieces[2].text

\* "(" then c markers "?" separated by single commas, then ")".
Group(c) ==
    [i \in 1..(IF c = 0 THEN 2 ELSE 2 * c + 1) |->
        IF i = 1 THEN "("
        ELSE IF i = (IF c = 0 THEN 2 ELSE 2 * c + 1) THEN ")"
        ELSE IF i % 2 = 0 THEN "?" ELSE ","]

\* r copies of `group`, consecutive copies separated by `sep`.
RECURSIVE Repeated(_, _, _)
Repeated(group, r, sep) ==
    IF r = 0 THEN <<>>
    ELSE IF r = 1 THEN group
    ELSE Repeated(group, r - 1, sep) \o sep \o group

\* C6 as stated: on empty text add_array(c) appends exactly "(" c markers
\* separated by single commas ")", and add_array(c, r) appends exactly r such
\* groups separated by a single comma and nothing else.
C6_GroupsSeparatedByComma ==
    [][/\ (ss = <<>> /\ last'.op = "add_array") => ss' = Group(last'.arg[1])
       /\ (ss = <<>> /\ last'.op = "add_array_rows") =>
              ss' = Repeated(Group(last'.arg[1]), last'.arg[2], <<",">>)]_vars

\* C6 amended: on empty text add_array(c) appends exactly "(" c markers
\* separated by single commas ")", and add_array(c, r) appends exactly r such
\* groups, consecutive groups separated by a comma followed by one space.
C6_GroupsSeparatedByCommaSpace ==
    [][/\ (ss = <<>> /\ last'.op = "add_array") => ss' = Group(last'.arg[1])
       /\ (ss = <<>> /\ last'.op = "add_array_rows") =>
              ss' = Repeated(Group(last'.arg[1]), last'.arg[2], <<",", " ">>)]_vars

\* C6 witness: add_array(2, 3) on empty text gave "(?,?), (?,?), (?,?)".
C6_Witness ==
    /\ Len(pieces) = 1
    /\ last.op = "add_array_rows"
    /\ last.arg = <<2, 3>>
    /\ ss = <<"(", "?", ",", "?", ")", ",", " ",
              "(", "?", ",", "?", ")", ",", " ",
              "(", "?", ",", "?", ")">>

-----------------------------------------------------------------------------
(* Properties of the cursor and of the binds                               *)

Readers ==
    {"skip", "get_string", "get_int32", "get_uint32", "get_int64", "get_uint64",
     "get_double", "get_int64_array"}

Binds ==
    {"bind_text", "bind_int32", "bind_uint32", "bind_int64", "bind_uint64", "bind_null"}

\* C7: with the column cursor at or past the cached column count, skip()
\* and every get_* raise DatabaseException and leave the cursor where it
\* is; below the count each of them advances the cursor by exactly one; and
\* step() sets the cursor to zero.
C7_ColumnCursor ==
    [][/\ last'.op \in Readers =>
              IF col_idx >= col_count
              THEN last'.threw = "DatabaseException" /\ col_idx' = col_idx
              ELSE col_idx' = col_idx + 1
       /\ last'.op = "step" => col_idx' = 0]_vars

\* C7 witness: on a row, after every column was read, get_int64_array was
\* called and raised.
C7_Witness ==
    /\ stmt.row
    /\ col_count > 0
    /\ col_idx = col_count
    /\ last.op = "get_int64_array"
    /\ last.threw = "DatabaseException"

\* C9: bind(uint64 v) with v above the signed 64-bit maximum raises
\* DatabaseException and changes nothing of the Query (no preparation, no
\* advance of the bind cursor, no parameter bound); with v at or below it, a
\* bind the engine accepts stores the number v as a signed 64-bit integer, and
\* get_int64() and get_uint64() on a row return the number such a column holds.
C9_UInt64RoundTrip ==
    [][/\ (last'.op = "bind_uint64" /\ last'.arg[1] > INT64_MAX) =>
              /\ last'.threw = "DatabaseException"
              /\ UNCHANGED qvars
       /\ (last'.op = "bind_uint64" /\ last'.arg[1] <= INT64_MAX /\ last'.threw = "none") =>
              /\ bind_idx' = bind_idx + 1
              /\ stmt'.params[bind_idx'] = IntVal(last'.arg[1])
       /\ \A u \in UInt64Inputs :
              (/\ last'.op \in {"get_int64", "get_uint64"}
               /\ stmt.row
               /\ col_idx < col_count
               /\ stmt.params[col_idx + 1] = IntVal(u)) =>
                  (last'.threw = "none" /\ last'.ret = u)]_vars

\* C9 witness: the signed 64-bit maximum, bound with bind(uint64), was read
\* back with get_uint64().
C9_Witness ==
    /\ last.op = "get_uint64"
    /\ last.threw = "none"
    /\ last.ret = INT64_MAX
    /\ stmt.row
    /\ col_idx > 0
    /\ stmt.params[col_idx] = IntVal(INT64_MAX)

-----------------------------------------------------------------------------
(* Properties of the preparation                                           *)

Appends == {"<<", "add_array", "add_array_rows"}

\* The parts of C10 that hold as stated: nothing but a bind or a step
\* prepares, and it prepares the text as it is then; appends leave the
\* statement alone; clear_bindings keeps statement, text and column count
\* and zeroes both cursors.
C10_Common ==
    /\ prepared'.n > prepared.n =>
           /\ last'.op \in Binds \cup {"step"}
           /\ stmt.null
           /\ prepared'.n = prepared.n + 1
           /\ prepared'.sql = ss
           /\ (~stmt'.null) => stmt'.sql = ss
    /\ last'.op \in Appends =>
           /\ stmt' = stmt
           /\ prepared' = prepared
    /\ last'.op = "clear_bindings" =>
           /\ stmt'.null = stmt.null
           /\ stmt'.sql = stmt.sql
           /\ ss' = ss
           /\ col_count' = col_count
           /\ prepared' = prepared
           /\ bind_idx' = 0
           /\ col_idx' = 0

\* C10 as stated: no preparation before the first bind() or step(); the
\* first bind() or step() after creation or reset() prepares the text
\* accumulated then; from a successful preparation to the next reset() there
\* is no further preparation; appends and clear_bindings() as above.
C10_PreparedOnce ==
    [][/\ C10_Common
       /\ (prepared.n = 0 /\ last'.op \in Binds \cup {"step"}) =>
              (prepared'.n = 1 /\ prepared'.sql = ss)
       /\ (prepared.res \in {"stmt", "empty"} /\ last'.op # "reset") =>
              prepared' = prepared]_vars

\* C10 amended: as stated, except that a bind(uint64) refused for its range
\* does not prepare, and that only a preparation that yielded a statement is
\* not repeated: one that failed, or one of blank text (which the engine
\* accepts without making a statement), is repeated by the next bind() or
\* step().
C10_PreparedOncePerStatement ==
    [][/\ C10_Common
       /\ (/\ stmt.null
           /\ last'.op \in Binds \cup {"step"}
           /\ ~(last'.op = "bind_uint64" /\ last'.arg[1] > INT64_MAX)) =>
              (prepared'.n = prepared.n + 1 /\ prepared'.sql = ss)
       /\ (~stmt.null /\ last'.op # "reset") =>
              /\ prepared' = prepared
              /\ ~stmt'.null
              /\ stmt'.sql = stmt.sql]_vars

\* C10 witness: text was appended after the preparation, and a later bind
\* went to the statement prepared before, with no second preparation.
C10_Witness ==
    /\ ~stmt.null
    /\ stmt.sql # ss
    /\ prepared.n = 1
    /\ last.op \in Binds
    /\ last.threw = "none"
    /\ bind_idx > 0

-----------------------------------------------------------------------------
(* Properties of get_int64_array                                           *)

\* The column text of the one-column statement.
ColumnText == stmt.params[1].s

Delimiters(text) == {i \in DOMAIN text : text[i] = ","}

\* Where the segments of `text` start: at its first character and after
\* every delimiter that is not its last character.
Starts(text) == {i \in DOMAIN text : i = 1 \/ (i - 1) \in Delimiters(text)}

\* The segment that starts at s: up to the next delimiter or the end.
SegmentAt(text, s) ==
    LET ends == {d \in Delimiters(text) : d >= s} \cup {Len(text) + 1}
    IN  SubSeq(text, s, (CHOOSE e \in ends : \A d \in ends : e <= d) - 1)

\* The elements of a set of numbers in increasing order.
RECURSIVE Ascending(_)
Ascending(S) ==
    IF S = {}
    THEN <<>>
    ELSE LET m == CHOOSE x \in S : \A y \in S : x <= y
         IN  <<m>> \o Ascending(S \ {m})

\* The segments of `text`, empty ones included, in order.
Segments(text) ==
    LET at == Ascending(Starts(text))
    IN  [k \in DOMAIN at |-> SegmentAt(text, at[k])]

\* seg is an optional minus sign and then digits only.
PlainDecimal(seg) ==
    LET body == IF seg # <<>> /\ seg[1] = "-" THEN Tail(seg) ELSE seg
    IN  body # <<>> /\ \A i \in DOMAIN body : IsDigit(body[i])

\* The number a plain decimal spells.
RECURSIVE Magnitude(_)
Magnitude(body) ==
    IF body = <<>>
    THEN 0
    ELSE 10 * Magnitude(SubSeq(body, 1, Len(body) - 1)) + DigitValue(body[Len(body)])

DecimalValue(seg) == IF seg[1] = "-" THEN -Magnitude(Tail(seg)) ELSE Magnitude(seg)

\* seg has no number at its head: after leading whitespace and an optional
\* sign there is no digit.
NoLeadingNumber(seg) ==
    \E k \in 0..Len(seg) :
        /\ \A i \in 1..k : isspace(seg[i])
        /\ LET rest == SubSeq(seg, k + 1, Len(seg))
               body == IF rest # <<>> /\ rest[1] \in {"+", "-"} THEN Tail(rest) ELSE rest
           IN  /\ (rest = <<>> \/ ~isspace(rest[1]))
               /\ (body = <<>> \/ ~IsDigit(body[1]))

\* The non-empty ones among segs, in order.
NonEmpty(segs) == SelectSeq(segs, LAMBDA seg : seg # <<>>)

InRange(n) == INT64_MIN <= n /\ n <= INT64_MAX

\* C8 as stated: get_int64_array splits the column text at the delimiter,
\* skips every empty segment and returns the others parsed as signed 64-bit
\* integers in their order ("1,2,,3" gives [1, 2, 3]); a non-empty segment
\* with no number in it raises a parse error.
C8_SkipsEmptySegments ==
    [][(col_idx = 0 /\ last'.op = "get_int64_array") =>
          LET segs == NonEmpty(Segments(ColumnText))
          IN  /\ (\A k \in DOMAIN segs : PlainDecimal(segs[k]) /\ InRange(DecimalValue(segs[k]))) =>
                     /\ last'.threw = "none"
                     /\ last'.ret = [k \in DOMAIN segs |-> DecimalValue(segs[k])]
              /\ (\E k \in DOMAIN segs : NoLeadingNumber(segs[k])) =>
                     last'.threw \in {"std::invalid_argument", "std::out_of_range"}]_vars

\* C8 amended: get_int64_array splits the column text at the delimiter (a
\* delimiter that ends the text starts no segment, an empty text has none)
\* and parses every segment, the empty ones too: when all are decimal numbers
\* in range it returns them in order; a segment that is empty or has no
\* number at its head raises a parse error, so "1,2,,3" raises
\* std::invalid_argument; a number followed by other characters parses as
\* that number ("2x" gives [2]).
C8_ParsesEverySegment ==
    [][(col_idx = 0 /\ last'.op = "get_int64_array") =>
          LET segs == Segments(ColumnText)
          IN  /\ (\A k \in DOMAIN segs : PlainDecimal(segs[k]) /\ InRange(DecimalValue(segs[k]))) =>
                     /\ last'.threw = "none"
                     /\ last'.ret = [k \in DOMAIN segs |-> DecimalValue(segs[k])]
              /\ (\E k \in DOMAIN segs : NoLeadingNumber(segs[k])) =>
                     last'.threw \in {"std::invalid_argument", "std::out_of_range"}
              /\ ColumnText = <<"1", ",", "2", ",", ",", "3">> =>
                     last'.threw = "std::invalid_argument"
              /\ ColumnText = <<"2", "x">> =>
                     (last'.threw = "none" /\ last'.ret = <<2>>)
              /\ col_idx' = 1]_vars

\* C8 witness: get_int64_array on the column text "1,2,,3" raised
\* std::invalid_argument.
C8_Witness ==
    /\ ColumnText = <<"1", ",", "2", ",", ",", "3">>
    /\ col_idx = 1
    /\ last.op = "get_int64_array"
    /\ last.threw = "std::invalid_argument"

====
